---- MODULE Spec2Model ----
(***************************************************************************)
(* Model of `lz g`: the concurrent status collector (cmd/git.go            *)
(* gatherEntries), the row flattener, the List/Detail bubbletea model and  *)
(* the ui.Scroll viewport.                                                 *)
(*                                                                         *)
(* Go strings are sequences of one-character strings, so that trimming,    *)
(* splitting, slicing and comparison are computed as the code computes     *)
(* them.                                                                   *)
(***************************************************************************)
EXTENDS Integers, Sequences, FiniteSets, TLC

VARIABLES
    \* ---- gatherEntries (cmd/git.go:42-76) ----
    repos,      \* result of git.Discover: sequence of [Name, Path]
    gitOk,      \* per repo: what each git command answers
    failure,    \* <<>> or <<i, c>>: command c additionally fails on repo i
    pc,         \* position of the main goroutine
    loopI,      \* number of iterations of the spawn loop already run
    entries,    \* the entries slice
    wpc,        \* per worker goroutine: position
    wg,         \* sync.WaitGroup counter
    writers,    \* history: per slot, the workers that stored a status in it
    \* ---- gitModel (cmd/git.go:218-227) ----
    rows, cursor, viewing, detail, diff, width, height,
    quit,       \* the last Update returned tea.Quit
    diffReq,    \* history: the command of the last git.Diff call
    \* ---- a free-standing ui.Scroll (internal/ui/scroll.go) ----
    s,          \* the Scroll value
    vis,        \* result of the last call on it
    \* ---- a free-standing call of ui.KeepCursorVisible ----
    kcv,        \* the arguments and the result of the last call
    \* ---- rendering ----
    now,        \* the wall clock read by time.Since, in seconds
    screen,     \* history: what the last render wrote
    \* ---- a free-standing call of ui.Truncate ----
    trunc       \* the arguments and the result of the last call

gatherVars == <<repos, gitOk, failure, pc, loopI, entries, wpc, wg, writers>>
modelVars == <<rows, cursor, viewing, detail, diff, width, height, quit, diffReq>>
scrollVars == <<s, vis>>
renderVars == <<kcv, now, screen, trunc>>
vars == <<gatherVars, modelVars, scrollVars, renderVars>>

\* ------------------------------------------------------------------
\* Bounds
\* ------------------------------------------------------------------
MaxRepos == 2
MaxTotal == 4
MaxHeight == 3
MaxLines == 5       \* KeepCursorVisible: totalLines up to this
MaxViewport == 4    \* KeepCursorVisible: viewportH up to this
MaxStr == 3         \* Truncate: strings of up to this many runes
MaxCells == 4       \* Truncate: max up to this

\* ------------------------------------------------------------------
\* Go builtins and string helpers
\* ------------------------------------------------------------------
Min(a, b) == IF a < b THEN a ELSE b

Max(a, b) == IF a > b THEN a ELSE b

NL == "\n"

\* unicode.IsSpace restricted to the characters that occur
IsSpace(c) == c \in {" ", NL, "\t"}

\* s[lo:hi] of Go (0-based, hi exclusive)
Slice(str, lo, hi) == [k \in 1..(hi - lo) |-> str[lo + k]]

RECURSIVE TrimLeftSpace(_)
TrimLeftSpace(str) ==
    IF str # <<>> /\ IsSpace(Head(str)) THEN TrimLeftSpace(Tail(str)) ELSE str

RECURSIVE TrimRightSpace(_)
TrimRightSpace(str) ==
    IF str # <<>> /\ IsSpace(str[Len(str)])
    THEN TrimRightSpace(SubSeq(str, 1, Len(str) - 1)) ELSE str

\* strings.TrimSpace
TrimSpace(str) == TrimRightSpace(TrimLeftSpace(str))

\* strings.TrimRight(str, "\n")
RECURSIVE TrimRightNL(_)
TrimRightNL(str) ==
    IF str # <<>> /\ str[Len(str)] = NL
    THEN TrimRightNL(SubSeq(str, 1, Len(str) - 1)) ELSE str

\* strings.HasPrefix
HasPrefix(str, p) == Len(str) >= Len(p) /\ SubSeq(str, 1, Len(p)) = p

\* strings.Index: 0-based index of the first occurrence of sep, or -1
Index(str, sep) ==
    LET hits == {k \in 0..(Len(str) - Len(sep)) : SubSeq(str, k + 1, k + Len(sep)) = sep}
    IN IF hits = {} THEN -1 ELSE CHOOSE k \in hits : \A j \in hits : k <= j

\* strings.Contains
Contains(str, sep) == Index(str, sep) >= 0

\* strings.Split(str, sep) for a non-empty sep
RECURSIVE Split(_, _)
Split(str, sep) ==
    LET k == Index(str, sep)
    IN IF k < 0 THEN <<str>>
       ELSE <<Slice(str, 0, k)>> \o Split(Slice(str, k + Len(sep), Len(str)), sep)

\* strings.SplitN(str, sep, 2)
SplitN2(str, sep) ==
    LET k == Index(str, sep)
    IN IF k < 0 THEN <<str>>
       ELSE <<Slice(str, 0, k), Slice(str, k + Len(sep), Len(str))>>

Digits == <<"0", "1", "2", "3", "4", "5", "6", "7", "8", "9">>

IsDigit(c) == \E d \in 1..10 : Digits[d] = c

DigitVal(c) == (CHOOSE d \in 1..10 : Digits[d] = c) - 1

RECURSIVE DecVal(_)
DecVal(str) ==
    IF str = <<>> THEN 0
    ELSE 10 * DecVal(SubSeq(str, 1, Len(str) - 1)) + DigitVal(str[Len(str)])

\* strconv.ParseInt(str, 10, 64): [ok, val]; an optional sign, then digits
ParseInt(str) ==
    LET signed == str # <<>> /\ Head(str) \in {"+", "-"}
        body == IF signed THEN Tail(str) ELSE str
    IN IF body = <<>> \/ \E k \in 1..Len(body) : ~IsDigit(body[k])
       THEN [ok |-> FALSE, val |-> 0]
       ELSE [ok |-> TRUE,
             val |-> IF signed /\ Head(str) = "-" THEN 0 - DecVal(body) ELSE DecVal(body)]

\* strconv.Atoi with the error dropped (`x, _ = strconv.Atoi(v)`)
Atoi(str) == ParseInt(str).val

\* byte values of the characters that occur in repo names
Code(c) ==
    CASE c = "." -> 46
      [] c = "a" -> 97
      [] c = "b" -> 98
      [] OTHER -> 120

\* cmp.Compare on strings: -1, 0 or +1, lexicographic by byte
RECURSIVE Compare(_, _)
Compare(a, b) ==
    IF a = <<>> /\ b = <<>> THEN 0
    ELSE IF a = <<>> THEN -1
    ELSE IF b = <<>> THEN 1
    ELSE IF Code(Head(a)) < Code(Head(b)) THEN -1
    ELSE IF Code(Head(a)) > Code(Head(b)) THEN 1
    ELSE Compare(Tail(a), Tail(b))

\* ------------------------------------------------------------------
\* ui.Scroll (internal/ui/scroll.go)
\* ------------------------------------------------------------------
Scroll0 == [Offset |-> 0, Total |-> 0, Height |-> 0]

maxOffset(sc) == Max(sc.Total - sc.Height, 0)

Up(sc) == IF sc.Offset > 0 THEN [sc EXCEPT !.Offset = sc.Offset - 1] ELSE sc

\* fault variant: Clamp without the upper limit
ClampNoUpper(sc) == IF sc.Offset < 0 THEN [sc EXCEPT !.Offset = 0] ELSE sc

Clamp(sc) ==
    LET mx == maxOffset(sc)
        a == IF sc.Offset > mx THEN [sc EXCEPT !.Offset = mx] ELSE sc
    IN IF a.Offset < 0 THEN [a EXCEPT !.Offset = 0] ELSE a

Down(sc) == Clamp([sc EXCEPT !.Offset = sc.Offset + 1])

Top(sc) == [sc EXCEPT !.Offset = 0]

Bottom(sc) == [sc EXCEPT !.Offset = maxOffset(sc)]

\* Scroll.HandleKey: the Scroll after the key, and the returned bool
HandleKey(sc, key) ==
    CASE key \in {"up", "k"} -> [sc |-> Up(sc), handled |-> TRUE]
      [] key \in {"down", "j"} -> [sc |-> Down(sc), handled |-> TRUE]
      [] key = "g" -> [sc |-> Top(sc), handled |-> TRUE]
      [] key = "G" -> [sc |-> Bottom(sc), handled |-> TRUE]
      [] OTHER -> [sc |-> sc, handled |-> FALSE]

\* Scroll.Visible: the Scroll after the call and the returned slice; the
\* slice expression lines[Offset:end] panics when end < Offset
\* fault variant: Total refreshed, Offset not re-clamped
VisibleNoClamp(sc, lines) ==
    LET a == [sc EXCEPT !.Total = Len(lines)]
        end == Min(a.Offset + a.Height, Len(lines))
    IN [sc |-> a,
        panic |-> end < a.Offset \/ a.Offset > Len(lines),
        out |-> IF end < a.Offset \/ a.Offset > Len(lines) THEN <<>>
                ELSE Slice(lines, a.Offset, end)]

Visible(sc, lines) ==
    LET a == Clamp([sc EXCEPT !.Total = Len(lines)])
        end == Min(a.Offset + a.Height, Len(lines))
    IN [sc |-> a,
        panic |-> end < a.Offset \/ a.Offset > Len(lines),
        out |-> IF end < a.Offset \/ a.Offset > Len(lines) THEN <<>>
                ELSE Slice(lines, a.Offset, end)]

\* Scroll.Percent: <<>> for "", <<p>> for " · p%"
Percent(sc) ==
    IF maxOffset(sc) <= 0 THEN <<>> ELSE <<(100 * sc.Offset) \div maxOffset(sc)>>

\* fault variant: the cursor line is put at the top whenever it is not 0
KeepCursorAtTop(c, totalLines, viewportH) ==
    IF viewportH <= 0 \/ totalLines <= viewportH THEN 0
    ELSE Max(Min(c, totalLines - viewportH), 0)

\* ui.KeepCursorVisible (scroll.go:83-98)
KeepCursorVisible(c, totalLines, viewportH) ==
    IF viewportH <= 0 \/ totalLines <= viewportH THEN 0
    ELSE LET o1 == IF c > viewportH - 2 THEN c - viewportH + 2 ELSE 0
             o2 == IF o1 > totalLines - viewportH THEN totalLines - viewportH ELSE o1
         IN IF o2 < 0 THEN 0 ELSE o2

\* ------------------------------------------------------------------
\* git.GetStatus (internal/git/status.go)
\* ------------------------------------------------------------------
\* The git commands GetStatus runs, in order.  The result of running one is
\* [err, out]: cmd.Output()'s error and the stdout collected.
Cmds == {"branch", "describe", "upstream", "ahead", "behind", "stash", "log", "status"}

Ok(out) == [err |-> FALSE, out |-> out]

Err(out) == [err |-> TRUE, out |-> out]

\* fault variant: gitOutput that returns the collected stdout even on error
gitOutputKeepErr(res) == res.out

gitOutput(res) == IF res.err THEN <<>> ELSE res.out

gitLine(res) == TrimSpace(gitOutput(res))

\* the loop over the porcelain lines (status.go:73-81)
RECURSIVE ParseFiles(_)
ParseFiles(lines) ==
    IF lines = <<>> THEN <<>>
    ELSE LET line == Head(lines)
         IN (IF Len(line) < 3 THEN <<>>
             ELSE <<[XY |-> Slice(line, 0, 2), File |-> Slice(line, 3, Len(line))]>>)
            \o ParseFiles(Tail(lines))

\* time.Time: <<>> is the zero time, <<n>> is time.Unix(n, 0)
ZeroTime == <<>>

GetStatus(run) ==
    LET b == gitLine(run["branch"])
        upstream == gitLine(run["upstream"])
        hasUp == upstream # <<>>
        av == gitLine(run["ahead"])
        bv == gitLine(run["behind"])
        stashOut == gitOutput(run["stash"])
        ts == gitLine(run["log"])
        porcelain == gitOutput(run["status"])
    IN [Branch |-> IF b = <<>> THEN <<"H", "E", "A", "D">> ELSE b,
        Tag |-> gitLine(run["describe"]),
        HasUpstream |-> hasUp,
        Ahead |-> IF hasUp /\ av # <<>> THEN Atoi(av) ELSE 0,
        Behind |-> IF hasUp /\ bv # <<>> THEN Atoi(bv) ELSE 0,
        Stash |-> IF stashOut # <<>> THEN Len(Split(TrimSpace(stashOut), <<NL>>)) ELSE 0,
        Age |-> IF ts # <<>> /\ ParseInt(ts).ok THEN <<ParseInt(ts).val>> ELSE ZeroTime,
        Files |-> IF porcelain = <<>> THEN <<>>
                  ELSE ParseFiles(Split(TrimRightNL(porcelain), <<NL>>)),
        IsClean |-> porcelain = <<>>]

\* the zero value of git.RepoStatus / git.Repo / repoEntry
StatusZero ==
    [Branch |-> <<>>, Tag |-> <<>>, HasUpstream |-> FALSE, Ahead |-> 0, Behind |-> 0,
     Stash |-> 0, Age |-> ZeroTime, Files |-> <<>>, IsClean |-> FALSE]

RepoZero == [Name |-> <<>>, Path |-> <<>>]

EntryZero == [repo |-> RepoZero, status |-> StatusZero]

\* ------------------------------------------------------------------
\* The environment: discovered repos and what git answers in each
\* ------------------------------------------------------------------
\* a dirty work tree on branch m, tag v, upstream 2 ahead 1 behind, two
\* stashes; one modified file, one staged rename, one untracked file
ProfDirty ==
    [c \in Cmds |->
        CASE c = "branch" -> Ok(<<"m", NL>>)
          [] c = "describe" -> Ok(<<"v", NL>>)
          [] c = "upstream" -> Ok(<<"o", NL>>)
          [] c = "ahead" -> Ok(<<"2", NL>>)
          [] c = "behind" -> Ok(<<"1", NL>>)
          [] c = "stash" -> Ok(<<"x", NL, "y", NL>>)
          [] c = "log" -> Ok(<<"7", NL>>)
          [] OTHER -> Ok(<<" ", "M", " ", "f", NL,
                           "R", " ", " ", "a", " ", "-", ">", " ", "b", NL,
                           "?", "?", " ", "n", NL>>)]

\* a clean work tree on a detached HEAD with no tag and no upstream
ProfClean ==
    [c \in Cmds |->
        CASE c = "branch" -> Ok(<<>>)
          [] c = "describe" -> Err(<<>>)
          [] c = "upstream" -> Err(<<>>)
          [] c = "ahead" -> Err(<<>>)
          [] c = "behind" -> Err(<<>>)
          [] c = "stash" -> Ok(<<>>)
          [] c = "log" -> Ok(<<"5", NL>>)
          [] OTHER -> Ok(<<>>)]

Profiles == {ProfDirty, ProfClean}

Names == {<<"b">>, <<"a", "b">>}

PathOf(i) == <<"/", "r", Digits[i + 1]>>

\* discovery results: any names, distinct paths
RepoLists ==
    UNION {[1..n -> Names] : n \in 0..MaxRepos}

\* what running command c in repo i yields
Run(i) ==
    [c \in Cmds |->
        IF failure = <<i, c>> THEN Err(gitOk[i][c].out) ELSE gitOk[i][c]]

\* ------------------------------------------------------------------
\* gatherEntries (cmd/git.go:42-76)
\* ------------------------------------------------------------------
N == Len(repos)

\* the comparison function handed to slices.SortFunc (git.go:64-73)
\* fault variant: a comparison that forgets the dirty-first key
cmpNameOnly(a, b) == Compare(a.repo.Name, b.repo.Name)

cmpEntry(a, b) ==
    LET da == ~a.status.IsClean
        db == ~b.status.IsClean
    IN IF da # db THEN (IF da THEN -1 ELSE 1)
       ELSE Compare(a.repo.Name, b.repo.Name)

Perms(n) == {f \in [1..n -> 1..n] : \A i, j \in 1..n : i # j => f[i] # f[j]}

\* slices.SortFunc: ascending by cmpEntry, "not guaranteed to be stable":
\* every ordering of x that is sorted under the comparison is an outcome
SortFunc(x) ==
    {[k \in 1..Len(x) |-> x[f[k]]] : f \in
        {g \in Perms(Len(x)) :
            \A i, j \in 1..Len(x) : i < j => cmpEntry(x[g[i]], x[g[j]]) <= 0}}

\* fault variant: one i and r shared by all iterations, so a closure sees
\* the iteration the loop is at when it runs
CapturedShared(i, cur) == cur

\* which iteration's i and r a worker closure sees: its own (loop variables
\* are per iteration)
Captured(i, cur) == i

\* fault variant: no barrier
WaitReturnsEarly(counter) == TRUE

\* wg.Wait returns when the counter is zero
WaitReturns(counter) == counter = 0

\* ------------------------------------------------------------------
\* flattenRows (cmd/git.go:238-263); entryIdx and fileIdx are 0-based
\* ------------------------------------------------------------------
Arrow == <<" ", "-", ">", " ">>

FilePath(f) == IF Contains(f.File, Arrow) THEN SplitN2(f.File, Arrow)[2] ELSE f.File

RepoRow(e, i) ==
    [kind |-> "repo", entryIdx |-> i, fileIdx |-> 0,
     repoName |-> e.repo.Name, filePath |-> <<>>, fileXY |-> <<>>]

\* fault variant: fileIdx counted from 1
FileRowOneBased(e, i, j) ==
    [kind |-> "file", entryIdx |-> i, fileIdx |-> j + 1,
     repoName |-> e.repo.Name, filePath |-> FilePath(e.status.Files[j + 1]),
     fileXY |-> e.status.Files[j + 1].XY]

FileRow(e, i, j) ==
    [kind |-> "file", entryIdx |-> i, fileIdx |-> j,
     repoName |-> e.repo.Name, filePath |-> FilePath(e.status.Files[j + 1]),
     fileXY |-> e.status.Files[j + 1].XY]

\* fault variant: the inner loop over the files left out
RowsOfEntryNoFiles(e, i) == <<RepoRow(e, i)>>

RowsOfEntry(e, i) ==
    <<RepoRow(e, i)>> \o [j \in 1..Len(e.status.Files) |-> FileRow(e, i, j - 1)]

RECURSIVE flattenFrom(_, _)
flattenFrom(es, i) ==
    IF i >= Len(es) THEN <<>>
    ELSE RowsOfEntry(es[i + 1], i) \o flattenFrom(es, i + 1)

flattenRows(es) == flattenFrom(es, 0)

\* ------------------------------------------------------------------
\* git.Diff (internal/git/status.go:89-100): the command it runs; xy[0] of an
\* empty xy is an index-out-of-range panic
\* ------------------------------------------------------------------
DiffCmd(dir, file, xy) ==
    IF xy = <<"?", "?">> THEN [dir |-> dir, mode |-> "no-index", file |-> file]
    ELSE IF xy = <<>> THEN [dir |-> dir, mode |-> "panic", file |-> file]
    ELSE IF xy[1] # " " THEN [dir |-> dir, mode |-> "cached", file |-> file]
    ELSE [dir |-> dir, mode |-> "worktree", file |-> file]

\* what a diff command may answer
DiffResults ==
    {Err(<<>>), Ok(<<"-", "a", NL, "+", "b", NL, " ", "c", NL>>)}

\* ------------------------------------------------------------------
\* gitModel.View (cmd/git.go:323-363, 459-513).  View has a value
\* receiver: what it assigns to m.detail is assigned to its own copy of the
\* model and is gone when it returns.  A styled string is [style, text].
\* ------------------------------------------------------------------
Styled(style, text) == [style |-> style, text |-> text]

colorDiffLine(line) ==
    IF HasPrefix(line, <<"+", "+", "+">>) \/ HasPrefix(line, <<"-", "-", "-">>)
        THEN Styled("bold", line)
    ELSE IF HasPrefix(line, <<"@", "@">>) THEN Styled("cyan", line)
    ELSE IF HasPrefix(line, <<"+">>) THEN Styled("green", line)
    ELSE IF HasPrefix(line, <<"-">>) THEN Styled("red", line)
    ELSE IF HasPrefix(line, <<"d", "i", "f", "f", " ">>)
            \/ HasPrefix(line, <<"i", "n", "d", "e", "x", " ">>)
        THEN Styled("faint", line)
    ELSE Styled("plain", line)

NoDiffText == <<" ", " ", "(", "n", "o", " ", "d", "i", "f", "f", ")">>

colorDiff(raw) ==
    IF raw = <<>> THEN <<Styled("faint", NoDiffText)>>
    ELSE LET src == Split(TrimRightNL(raw), <<NL>>)
         IN [k \in 1..Len(src) |-> colorDiffLine(src[k])]

\* the viewport height viewDetail sets on its copy (git.go:471-474)
DetailHeight(h) == IF h - 4 < 1 THEN 20 ELSE h - 4

\* viewDetail: the title row, the diff lines written, the percent shown, and
\* the Scroll of the copy as Visible left it
viewDetail(rs, c, sc, raw, h) ==
    LET lines == colorDiff(raw)
        v == Visible([sc EXCEPT !.Height = DetailHeight(h)], lines)
    IN [mode |-> "detail",
        panic |-> c >= Len(rs) \/ v.panic,
        title |-> IF c < Len(rs) THEN <<rs[c + 1].repoName, rs[c + 1].filePath>> ELSE <<>>,
        lines |-> v.out,
        percent |-> Percent(v.sc),
        local |-> v.sc]

\* ------------------------------------------------------------------
\* Display strings.  A string is a sequence of runes; a rune outside ASCII
\* is written by name: BOX (U+2500), DOT (U+00B7), NIL (U+2205), UP
\* (U+2191), DN (U+2193), STASH (U+2261), TRI (U+25B8), RARR (U+2192), and
\* WIDE for any rune of East Asian width W.
\* ------------------------------------------------------------------
WideRunes == {"WIDE"}

\* runewidth.RuneWidth / runewidth.StringWidth, default (non East Asian) condition
RuneWidth(r) == IF r \in WideRunes THEN 2 ELSE 1

RECURSIVE StringWidth(_)
StringWidth(str) ==
    IF str = <<>> THEN 0 ELSE RuneWidth(Head(str)) + StringWidth(Tail(str))

\* fmt.Sprintf("%d", n) for n >= 0
RECURSIVE Itoa(_)
Itoa(n) == IF n < 10 THEN <<Digits[n + 1]>> ELSE Itoa(n \div 10) \o <<Digits[(n % 10) + 1]>>

\* strings.Repeat for count >= 0 (a negative count panics)
Repeat(r, n) == [k \in 1..n |-> r]

\* strings.Join, on strings and on sequences of styled pieces alike
RECURSIVE Join(_, _)
Join(parts, sep) ==
    IF parts = <<>> THEN <<>>
    ELSE IF Len(parts) = 1 THEN parts[1]
    ELSE parts[1] \o sep \o Join(Tail(parts), sep)

\* the runes of a sequence of styled pieces, styling dropped
RECURSIVE Text(_)
Text(segs) == IF segs = <<>> THEN <<>> ELSE Head(segs).text \o Text(Tail(segs))

Plain(text) == Styled("plain", text)

\* Truncate: the runes kept, while cur+rw <= max-1 (styles.go:78-85)
RECURSIVE keepRunes(_, _, _)
keepRunes(str, cur, max) ==
    IF str = <<>> \/ cur + RuneWidth(Head(str)) > max - 1 THEN <<>>
    ELSE <<Head(str)>> \o keepRunes(Tail(str), cur + RuneWidth(Head(str)), max)

\* ui.Truncate (styles.go:69-88); ELL is the rune U+2026
Truncate(str, max) ==
    IF max <= 0 THEN <<>>
    ELSE IF StringWidth(str) <= max THEN str
    ELSE keepRunes(str, 0, max) \o <<"ELL">>

\* ui.RelativeTime (styles.go:32-53); time.Since(t) is clock - t, in seconds
RelativeTime(t, clock) ==
    IF t = ZeroTime THEN <<>>
    ELSE LET d == clock - t[1]
         IN IF d < 60 THEN <<"n", "o", "w">>
            ELSE IF d < 3600 THEN Itoa(d \div 60) \o <<"m">>
            ELSE IF d < 86400 THEN Itoa(d \div 3600) \o <<"h">>
            ELSE IF d < 604800 THEN Itoa(d \div 86400) \o <<"d">>
            ELSE IF d < 2592000 THEN Itoa(d \div 604800) \o <<"w">>
            ELSE IF d < 31536000 THEN Itoa(d \div 2592000) \o <<"m", "o">>
            ELSE Itoa(d \div 31536000) \o <<"y">>

\* the markers of the right-hand columns (git.go:99-112, 376-387)
aheadMark(st) ==
    IF ~st.HasUpstream THEN <<"NIL">>
    ELSE IF st.Ahead > 0 THEN <<"UP">> \o Itoa(st.Ahead) ELSE <<>>

behindMark(st) == IF st.Behind > 0 THEN <<"DN">> \o Itoa(st.Behind) ELSE <<>>

stashMark(st) == IF st.Stash > 0 THEN <<"STASH">> \o Itoa(st.Stash) ELSE <<>>

tagMark(st) == IF st.Tag # <<>> THEN <<"@">> \o st.Tag ELSE <<>>

aheadStyle(st) == IF ~st.HasUpstream THEN "faint" ELSE "green"

\* "── name "
leftOf(e) == <<"BOX", "BOX", " ">> \o e.repo.Name \o <<" ">>

\* ------------------------------------------------------------------
\* The interactive row renderers (cmd/git.go:365-457, 517-553)
\* ------------------------------------------------------------------
NonEmpty(parts) == SelectSeq(parts, LAMBDA x : x # <<>>)

\* renderRepoRow: info, the plain right-hand parts
info(st, clock) ==
    <<st.Branch>> \o NonEmpty(<<RelativeTime(st.Age, clock), aheadMark(st),
                                behindMark(st), stashMark(st), tagMark(st)>>)

\* renderRepoRow: styledRight
styledRight(st, clock) ==
    <<Styled(IF ~st.IsClean THEN "cyan" ELSE "plain", st.Branch)>>
        \o SelectSeq(<<Styled("faint", RelativeTime(st.Age, clock)),
                       Styled(aheadStyle(st), aheadMark(st)),
                       Styled("red", behindMark(st)),
                       Styled("plain", stashMark(st)),
                       Styled("yellow", tagMark(st))>>,
                     LAMBDA x : x.text # <<>>)

\* fault variant: the dot fill without its floor of 3
availableNoFloor(w, left, right) ==
    Max(w - StringWidth(left) - StringWidth(right) - 4, 0)

\* renderRepoRow: available, the dot fill (git.go:393-397)
available(w, left, right) ==
    LET a == w - StringWidth(left) - StringWidth(right) - 4
    IN IF a < 3 THEN 3 ELSE a

renderRepoRow(e, isCursor, w, clock) ==
    LET st == e.status
        right == Join(info(st, clock), <<" ", " ">>)
        dots == Repeat("DOT", available(w, leftOf(e), right))
    IN IF isCursor
       THEN <<Styled("cursor", <<"TRI", " ">> \o e.repo.Name \o <<" ">>),
              Styled("cursor", dots \o <<" ">>),
              Styled("cursor", right)>>
       ELSE <<Styled("faint", <<" ", " ", "BOX", "BOX", " ">>),
              Styled("bold", e.repo.Name),
              Plain(<<" ">>),
              Styled("faint", dots \o <<" ">>)>>
            \o Join([k \in 1..Len(styledRight(st, clock)) |-> <<styledRight(st, clock)[k]>>],
                    <<Plain(<<" ", " ">>)>>)

fileSign(xy) ==
    CASE xy = <<"?", "?">> -> [ch |-> "?", style |-> "red"]
      [] xy = <<"M", " ">> -> [ch |-> "M", style |-> "green"]
      [] xy = <<" ", "M">> -> [ch |-> "M", style |-> "yellow"]
      [] xy = <<"M", "M">> -> [ch |-> "M", style |-> "cyan"]
      [] xy = <<"A", " ">> -> [ch |-> "A", style |-> "green"]
      [] xy = <<"A", "M">> -> [ch |-> "A", style |-> "cyan"]
      [] xy = <<" ", "D">> \/ xy = <<"D", " ">> -> [ch |-> "D", style |-> "red"]
      [] xy = <<"R", " ">> -> [ch |-> "R", style |-> "green"]
      [] OTHER -> [ch |-> "~", style |-> "faint"]

\* renderFile: one line, or two for a rename
renderFile(f) ==
    LET sg == fileSign(f.XY)
    IN IF Contains(f.File, Arrow)
       THEN LET parts == SplitN2(f.File, Arrow)
            IN <<Styled("faint", <<sg.ch, " ">> \o parts[1]),
                 Styled(sg.style, <<"RARR", " ">> \o parts[2])>>
       ELSE <<Styled(sg.style, <<sg.ch, " ">> \o f.File)>>

renderFileRow(f, isCursor) ==
    IF isCursor
    THEN <<Styled("cursor", <<" ", " ", "TRI", " ", fileSign(f.XY).ch, " ">> \o f.File)>>
    ELSE <<Plain(<<" ", " ", " ", " ">>)>>
         \o Join([k \in 1..Len(renderFile(f)) |-> <<renderFile(f)[k]>>], <<Plain(<<" ">>)>>)

NoReposLine == <<Plain(<<"N", "o", " ", "g", "i", "t", " ", "r", "e", "p", "o", "s", " ",
                         "f", "o", "u", "n", "d", ".">>)>>

\* the number of repo rows among the first k rows: renderRepoRow has been
\* called that many times when row k has been rendered
repoRank(rs, k) == Cardinality({m \in 1..k : rs[m].kind = "repo"})

\* viewList (git.go:330-363): every row is rendered, then the window from
\* KeepCursorVisible is cut out; first is the 0-based index of the first
\* line written.  The help bar that follows is a fixed text.  Each
\* renderRepoRow reads the clock for itself (git.go:370): clocks[n] is the
\* clock when the n-th repo row is rendered.
viewList(es, rs, c, w, h, clocks) ==
    IF Len(es) = 0 THEN [mode |-> "empty", first |-> 0, lines |-> <<NoReposLine>>]
    ELSE LET all == [k \in 1..Len(rs) |->
                        IF rs[k].kind = "repo"
                        THEN renderRepoRow(es[rs[k].entryIdx + 1], k - 1 = c, w,
                                           clocks[repoRank(rs, k)])
                        ELSE renderFileRow(es[rs[k].entryIdx + 1].status.Files[rs[k].fileIdx + 1],
                                           k - 1 = c)]
             listH == h - 2
         IN IF listH > 0 /\ Len(all) > listH
            THEN LET start == KeepCursorVisible(c, Len(all), listH)
                 IN [mode |-> "list", first |-> start,
                     lines |-> SubSeq(all, start + 1, Min(Len(all), start + listH))]
            ELSE [mode |-> "list", first |-> 0, lines |-> all]

\* ------------------------------------------------------------------
\* Non-interactive list mode: runGitList (cmd/git.go:80-198)
\* ------------------------------------------------------------------
\* rightCols, in the order of cw: branch, age, ahead, behind, stash, tag
rightCols(st, clock) ==
    <<st.Branch, RelativeTime(st.Age, clock), aheadMark(st), behindMark(st),
      stashMark(st), tagMark(st)>>

MaxOf(S) == CHOOSE x \in S : \A y \in S : y <= x

\* fault variant: the widths of the first entry's columns
colWidthsOfFirst(cols) == [j \in 1..6 |-> StringWidth(cols[1][j])]

\* cw: per column the maximum display width over all entries
colWidths(cols) ==
    [j \in 1..6 |-> MaxOf({0} \cup {StringWidth(cols[i][j]) : i \in 1..Len(cols)})]

padCount(plain, maxW) == maxW - StringWidth(plain)

padStyled(styled, plain, maxW) == <<styled, Plain(Repeat(" ", padCount(plain, maxW)))>>

renderExtra(st, c, cw) ==
    Join((IF cw[3] > 0 THEN <<padStyled(Styled(aheadStyle(st), c[3]), c[3], cw[3])>> ELSE <<>>)
         \o (IF cw[4] > 0 THEN <<padStyled(Styled("red", c[4]), c[4], cw[4])>> ELSE <<>>)
         \o (IF cw[5] > 0 THEN <<padStyled(Plain(c[5]), c[5], cw[5])>> ELSE <<>>)
         \o (IF cw[6] > 0 THEN <<padStyled(Styled("yellow", c[6]), c[6], cw[6])>> ELSE <<>>),
         <<Plain(<<" ">>)>>)

maxLeftW(es) == MaxOf({0} \cup {StringWidth(leftOf(es[i])) : i \in 1..Len(es)})

primaryW(es, cw) ==
    MaxOf({60, maxLeftW(es) + 3 + 1 + cw[1] + 1 + cw[2]}
          \cup UNION {{5 + StringWidth(es[i].status.Files[j].File) :
                         j \in 1..Len(es[i].status.Files)} : i \in 1..Len(es)})

dotsCount(e, c, cw, pw) == pw - StringWidth(leftOf(e)) - StringWidth(c[1]) - cw[2] - 2

\* the header line of one entry
headerLine(e, c, cw, pw) ==
    <<Styled("faint", <<"BOX", "BOX", " ">>), Styled("bold", e.repo.Name), Plain(<<" ">>),
      Styled("faint", Repeat("DOT", dotsCount(e, c, cw, pw))),
      Plain(<<" ">>),
      Styled(IF e.status.IsClean THEN "plain" ELSE "cyan", c[1]),
      Plain(<<" ">>)>>
    \o padStyled(Styled("faint", c[2]), c[2], cw[2])
    \o (IF Text(renderExtra(e.status, c, cw)) # <<>>
        THEN <<Plain(<<" ">>)>> \o renderExtra(e.status, c, cw) ELSE <<>>)

\* the file lines of one entry: none when it is clean
RECURSIVE fileLines(_)
fileLines(files) ==
    IF files = <<>> THEN <<>>
    ELSE [k \in 1..Len(renderFile(Head(files))) |->
             <<Plain(<<" ", " ", " ">>), renderFile(Head(files))[k]>>]
         \o fileLines(Tail(files))

\* the lines printed for entries i.. (0-based), a blank line first where
\* the previous entry or this one is dirty
RECURSIVE listFrom(_, _, _, _, _)
listFrom(es, i, cols, cw, pw) ==
    IF i >= Len(es) THEN <<>>
    ELSE LET e == es[i + 1]
         IN (IF i > 0 /\ (~es[i].status.IsClean \/ ~e.status.IsClean) THEN <<(<<>>)>> ELSE <<>>)
            \o <<headerLine(e, cols[i + 1], cw, pw)>>
            \o (IF ~e.status.IsClean THEN fileLines(e.status.Files) ELSE <<>>)
            \o listFrom(es, i + 1, cols, cw, pw)

\* runGitList after gatherEntries: the lines printed, and whether a
\* strings.Repeat was handed a negative count.  The first loop reads the
\* clock once per entry (git.go:109): clocks[i] is the clock when the
\* columns of entry i are computed.
runGitList(es, clocks) ==
    IF Len(es) = 0 THEN [panic |-> FALSE, lines |-> <<NoReposLine>>]
    ELSE LET cols == [i \in 1..Len(es) |-> rightCols(es[i].status, clocks[i])]
             cw == colWidths(cols)
             pw == primaryW(es, cw)
         IN [panic |-> \E i \in 1..Len(es) :
                          \/ dotsCount(es[i], cols[i], cw, pw) < 0
                          \/ \E j \in 2..6 : cw[j] > 0 /\ padCount(cols[i][j], cw[j]) < 0
                          \/ padCount(cols[i][2], cw[2]) < 0,
             lines |-> listFrom(es, 0, cols, cw, pw)]

\* ------------------------------------------------------------------
\* Events
\* ------------------------------------------------------------------
QuitKeysList == {"q", "esc", "ctrl+c"}

SelectKeys == {"enter", "right", "l"}

\* fault variant: ctrl+c goes back as well
BackKeysWithCtrlC == {"q", "esc", "backspace", "left", "h", "ctrl+c"}

BackKeys == {"q", "esc", "backspace", "left", "h"}

\* the key strings of the cases of updateList, updateDetail and
\* Scroll.HandleKey, and two keys no case names
Keys == {"q", "esc", "ctrl+c", "enter", "right", "l", "backspace", "left", "h",
         "up", "k", "down", "j", "g", "G", "e", "x"}

\* terminal sizes a tea.WindowSizeMsg may carry: <<width, height>>
Sizes == {<<8, 6>>, <<40, 3>>}

\* ------------------------------------------------------------------
\* Initial states
\* ------------------------------------------------------------------
InitModel ==
    /\ rows = <<>>
    /\ cursor = 0
    /\ viewing = FALSE
    /\ detail = Scroll0
    /\ diff = <<>>
    /\ width = 0
    /\ height = 0
    /\ quit = FALSE
    /\ diffReq = <<>>

InitScrollIdle ==
    /\ s = Scroll0
    /\ vis = <<>>

TruncIdle == [called |-> FALSE, str |-> <<>>, max |-> 0, out |-> <<>>]

KcvIdle == [called |-> FALSE, cursor |-> 0, total |-> 0, height |-> 0, offset |-> 0]

InitRenderIdle ==
    /\ kcv = KcvIdle
    /\ now = 0
    /\ screen = <<>>
    /\ trunc = TruncIdle

InitGather ==
    /\ \E names \in RepoLists :
          repos = [i \in 1..Len(names) |-> [Name |-> names[i], Path |-> PathOf(i)]]
    /\ gitOk \in [1..Len(repos) -> Profiles]
    /\ pc = "make"
    /\ loopI = 0
    /\ entries = <<>>
    /\ wpc = [i \in 1..Len(repos) |-> "idle"]
    /\ wg = 0
    /\ writers = [i \in 1..Len(repos) |-> {}]

Init ==
    /\ InitGather
    /\ failure = <<>>
    /\ InitModel
    /\ InitScrollIdle
    /\ InitRenderIdle

\* ------------------------------------------------------------------
\* gatherEntries: the main goroutine and the workers
\* ------------------------------------------------------------------
\* entries := make(...); wg.Add(len(repos))            (git.go:52-54)
Make ==
    /\ pc = "make"
    /\ entries' = [i \in 1..N |-> EntryZero]
    /\ wg' = N
    /\ pc' = "loop"
    /\ UNCHANGED <<repos, gitOk, failure, loopI, wpc, writers, modelVars, scrollVars, renderVars>>

\* one iteration of the loop: entries[i].repo = r; go func(){...}()  (git.go:55-61)
Spawn ==
    /\ pc = "loop"
    /\ loopI < N
    /\ entries' = [entries EXCEPT ![loopI + 1].repo = repos[loopI + 1]]
    /\ wpc' = [wpc EXCEPT ![loopI + 1] = "run"]
    /\ loopI' = loopI + 1
    /\ UNCHANGED <<repos, gitOk, failure, pc, wg, writers, modelVars, scrollVars, renderVars>>

\* worker w: entries[i].status = git.GetStatus(r.Path)      (git.go:59)
Worker(w) ==
    /\ wpc[w] = "run"
    /\ LET k == Captured(w, loopI)
       IN /\ entries' = [entries EXCEPT ![k].status = GetStatus(Run(k))]
          /\ writers' = [writers EXCEPT ![k] = @ \cup {w}]
    /\ wpc' = [wpc EXCEPT ![w] = "stored"]
    /\ UNCHANGED <<repos, gitOk, failure, pc, loopI, wg, modelVars, scrollVars, renderVars>>

\* worker w: the deferred wg.Done()                          (git.go:58)
WorkerDone(w) ==
    /\ wpc[w] = "stored"
    /\ wpc' = [wpc EXCEPT ![w] = "done"]
    /\ wg' = wg - 1
    /\ UNCHANGED <<repos, gitOk, failure, pc, loopI, entries, writers, modelVars, scrollVars, renderVars>>

\* wg.Wait() returns                                         (git.go:62)
Wait ==
    /\ pc = "loop"
    /\ loopI = N
    /\ WaitReturns(wg)
    /\ pc' = "sort"
    /\ UNCHANGED <<repos, gitOk, failure, loopI, entries, wpc, wg, writers, modelVars, scrollVars, renderVars>>

\* slices.SortFunc, return entries; initialGitModel builds the model
\* (git.go:64-75, 229-236)
SortReturn ==
    /\ pc = "sort"
    /\ \E out \in SortFunc(entries) :
          /\ entries' = out
          /\ rows' = flattenRows(out)
    /\ pc' = "tui"
    /\ UNCHANGED <<repos, gitOk, failure, loopI, wpc, wg, writers, cursor, viewing, detail,
                   diff, width, height, quit, diffReq, scrollVars, renderVars>>

\* ------------------------------------------------------------------
\* gitModel.Update (cmd/git.go:267-321); cursor is 0-based
\* ------------------------------------------------------------------
\* tea.WindowSizeMsg
Resize(w, h) ==
    /\ pc = "tui"
    /\ ~quit
    /\ width' = w
    /\ height' = h
    /\ UNCHANGED <<gatherVars, rows, cursor, viewing, detail, diff, quit, diffReq, scrollVars, renderVars>>

\* fault variant: the wrap to the last row without the len(rows) > 0 test
CursorUpUnguarded(c, n) == IF c > 0 THEN c - 1 ELSE n - 1

CursorUp(c, n) == IF c > 0 THEN c - 1 ELSE IF n > 0 THEN n - 1 ELSE c

\* fault variant: the cursor stops at the last row
CursorDownClamped(c, n) == IF c < n - 1 THEN c + 1 ELSE c

CursorDown(c, n) == IF c < n - 1 THEN c + 1 ELSE 0

\* fault variant: the row kind is not looked at
SelectsAnyRow(c, rs) == c < Len(rs)

\* the guard of the select case (git.go:298)
Selects(c, rs) == c < Len(rs) /\ rs[c + 1].kind = "file"

\* fault variant: the porcelain path, "old -> new" for a rename
DiffFileOld(r, es) == es[r.entryIdx + 1].status.Files[r.fileIdx + 1].File

\* the path handed to git.Diff (git.go:301)
DiffFile(r, es) == r.filePath

\* tea.KeyMsg while not viewing: updateList
ListKey(key) ==
    /\ pc = "tui"
    /\ ~quit
    /\ ~viewing
    /\ CASE key \in QuitKeysList ->
              /\ quit' = TRUE
              /\ UNCHANGED <<cursor, viewing, detail, diff, diffReq>>
         [] key \in {"up", "k"} ->
              /\ cursor' = CursorUp(cursor, Len(rows))
              /\ UNCHANGED <<quit, viewing, detail, diff, diffReq>>
         [] key \in {"down", "j"} ->
              /\ cursor' = CursorDown(cursor, Len(rows))
              /\ UNCHANGED <<quit, viewing, detail, diff, diffReq>>
         [] key \in SelectKeys /\ Selects(cursor, rows) ->
              LET r == rows[cursor + 1]
                  e == entries[r.entryIdx + 1]
              IN /\ \E res \in DiffResults : diff' = gitOutput(res)
                 /\ diffReq' = DiffCmd(e.repo.Path, DiffFile(r, entries), r.fileXY)
                 /\ viewing' = TRUE
                 /\ detail' = Scroll0
                 /\ UNCHANGED <<quit, cursor>>
         [] OTHER ->
              UNCHANGED <<quit, cursor, viewing, detail, diff, diffReq>>
    /\ UNCHANGED <<gatherVars, rows, width, height, scrollVars, renderVars>>

\* fault variant: going back puts the cursor on the first row
DetailKeyCursorReset(key) ==
    /\ pc = "tui"
    /\ ~quit
    /\ viewing
    /\ CASE key \in BackKeys ->
              /\ viewing' = FALSE
              /\ cursor' = 0
              /\ UNCHANGED <<quit, detail>>
         [] key = "ctrl+c" ->
              /\ quit' = TRUE
              /\ UNCHANGED <<viewing, detail, cursor>>
         [] OTHER ->
              /\ detail' = HandleKey(detail, key).sc
              /\ UNCHANGED <<quit, viewing, cursor>>
    /\ UNCHANGED <<gatherVars, rows, diff, width, height, diffReq, scrollVars, renderVars>>

\* tea.KeyMsg while viewing: updateDetail
DetailKey(key) ==
    /\ pc = "tui"
    /\ ~quit
    /\ viewing
    /\ CASE key \in BackKeys ->
              /\ viewing' = FALSE
              /\ UNCHANGED <<quit, detail>>
         [] key = "ctrl+c" ->
              /\ quit' = TRUE
              /\ UNCHANGED <<viewing, detail>>
         [] OTHER ->
              /\ detail' = HandleKey(detail, key).sc
              /\ UNCHANGED <<quit, viewing>>
    /\ UNCHANGED <<gatherVars, rows, cursor, diff, width, height, diffReq, scrollVars, renderVars>>

Next ==
    \/ Make
    \/ Spawn
    \/ \E w \in 1..N : Worker(w)
    \/ \E w \in 1..N : WorkerDone(w)
    \/ Wait
    \/ SortReturn
    \/ \E sz \in Sizes : Resize(sz[1], sz[2])
    \/ \E key \in Keys : ListKey(key)
    \/ \E key \in Keys : DetailKey(key)

Spec == Init /\ [][Next]_vars

\* gatherEntries alone, with one git command made to fail in one repo
InitFail ==
    /\ InitGather
    /\ failure \in {<<>>} \cup {<<i, c>> : i \in 1..Len(repos), c \in Cmds}
    /\ InitModel
    /\ InitScrollIdle
    /\ InitRenderIdle

NextGather ==
    \/ Make
    \/ Spawn
    \/ \E w \in 1..N : Worker(w)
    \/ \E w \in 1..N : WorkerDone(w)
    \/ Wait
    \/ SortReturn

SpecFail == InitFail /\ [][NextGather]_vars

\* ------------------------------------------------------------------
\* A Scroll on its own: any valid start state, any sequence of calls
\* ------------------------------------------------------------------
ValidScroll(sc) == 0 <= sc.Offset /\ sc.Offset <= Max(sc.Total - sc.Height, 0)

\* the lines handed to Visible: line numbers stand for the strings
Lines(n) == [k \in 1..n |-> k]

InitScroll ==
    /\ s \in {sc \in [Offset : 0..MaxTotal, Total : 0..MaxTotal, Height : -1..MaxHeight] :
                ValidScroll(sc)}
    /\ vis = <<>>
    /\ repos = <<>>
    /\ gitOk = <<>>
    /\ failure = <<>>
    /\ pc = "scroll"
    /\ loopI = 0
    /\ entries = <<>>
    /\ wpc = <<>>
    /\ wg = 0
    /\ writers = <<>>
    /\ InitModel
    /\ InitRenderIdle

ScrollUp == s' = Up(s) /\ vis' = <<"Up">> /\ UNCHANGED <<gatherVars, modelVars, renderVars>>

ScrollDown == s' = Down(s) /\ vis' = <<"Down">> /\ UNCHANGED <<gatherVars, modelVars, renderVars>>

ScrollTop == s' = Top(s) /\ vis' = <<"Top">> /\ UNCHANGED <<gatherVars, modelVars, renderVars>>

ScrollBottom == s' = Bottom(s) /\ vis' = <<"Bottom">> /\ UNCHANGED <<gatherVars, modelVars, renderVars>>

ScrollClamp == s' = Clamp(s) /\ vis' = <<"Clamp">> /\ UNCHANGED <<gatherVars, modelVars, renderVars>>

ScrollHandleKey(key) ==
    /\ s' = HandleKey(s, key).sc
    /\ vis' = <<"HandleKey", key, HandleKey(s, key).handled>>
    /\ UNCHANGED <<gatherVars, modelVars, renderVars>>

ScrollVisible(n) ==
    /\ s' = Visible(s, Lines(n)).sc
    /\ vis' = <<"Visible", n, Visible(s, Lines(n)).panic, Visible(s, Lines(n)).out>>
    /\ UNCHANGED <<gatherVars, modelVars, renderVars>>

NextScroll ==
    \/ ScrollUp
    \/ ScrollDown
    \/ ScrollTop
    \/ ScrollBottom
    \/ ScrollClamp
    \/ \E key \in Keys : ScrollHandleKey(key)
    \/ \E n \in 0..MaxTotal : ScrollVisible(n)

SpecScroll == InitScroll /\ [][NextScroll]_vars

\* ------------------------------------------------------------------
\* Properties
\* ------------------------------------------------------------------
\* C1: from any valid Scroll, after every call of Up, Down, Top, Bottom,
\* Clamp, HandleKey and Visible (which may set Total to any length),
\* 0 <= Offset <= max(Total-Height, 0).
C1_ScrollInvariant == ValidScroll(s)

\* a Down that ran into the upper end and was clamped back
C1_Witness ==
    /\ vis = <<"Down">>
    /\ s.Total > s.Height
    /\ s.Offset = s.Total - s.Height

\* ---- the collector ----
\* the slice the workers are to produce: slot i holds repos[i] and the
\* status git reports for it
Expected == [i \in 1..N |-> [repo |-> repos[i], status |-> GetStatus(Run(i))]]

\* the position in the discovered list of the repo an entry is for
RepoIdx(e) == CHOOSE i \in 1..N : repos[i].Path = e.repo.Path

Dirty(e) == ~e.status.IsClean

\* C2: when wg.Wait returns, before sorting, entries has length N,
\* entries[i].repo = repos[i] and entries[i].status is the status fetched
\* for repos[i], whatever the interleaving; a worker stores only into its
\* own slot and no slot is stored into by two workers.
C2_SlotPerWorker ==
    /\ \A i \in 1..N : writers[i] \subseteq {i}
    /\ pc = "sort" =>
          /\ Len(entries) = N
          /\ \A i \in 1..N :
                /\ entries[i].repo = repos[i]
                /\ entries[i].status = GetStatus(Run(i))
                /\ writers[i] = {i}

\* the join has returned for two repos whose statuses differ
C2_Witness ==
    /\ pc = "sort"
    /\ N >= 2
    /\ entries[1].status # entries[2].status
    /\ writers[1] = {1} /\ writers[2] = {2}

\* C3: the sort and the return happen only after every worker completed:
\* once past wg.Wait every worker is done and every slot holds a fetched
\* status (GetStatus never yields an empty Branch), and no rows exist
\* before the return.
C3_JoinBarrier ==
    /\ pc \in {"sort", "tui"} =>
          \A i \in 1..N : wpc[i] = "done" /\ entries[i].status.Branch # <<>>
    /\ pc # "tui" => rows = <<>>

\* the model was built from the entries of two repos
C3_Witness ==
    /\ pc = "tui"
    /\ N >= 2
    /\ rows # <<>>
    /\ \A i \in 1..N : wpc[i] = "done"

\* C4: in the returned entries every dirty entry precedes every clean one,
\* entries of equal dirtiness are in ascending name order, and the result
\* is an outcome of sorting the slice fixed by the repos and their statuses
\* alone, whatever order the workers completed in.
C4_SortedDeterministic ==
    pc = "tui" =>
        /\ \A i, j \in 1..Len(entries) :
              i < j =>
                 /\ ~(~Dirty(entries[i]) /\ Dirty(entries[j]))
                 /\ Dirty(entries[i]) = Dirty(entries[j]) =>
                       Compare(entries[i].repo.Name, entries[j].repo.Name) <= 0
        /\ entries \in SortFunc(Expected)

\* a clean repo discovered before a dirty one, returned after it
C4_Witness ==
    /\ pc = "tui"
    /\ N >= 2
    /\ ~Dirty(Expected[1]) /\ Dirty(Expected[2])
    /\ entries[1].repo = repos[2]

\* C5 (as claimed): two returned entries of the same dirtiness and the same
\* name keep the relative order they had in the discovered repo list.
C5_StableAsClaimed ==
    pc = "tui" =>
        \A i, j \in 1..Len(entries) :
            (/\ i < j
             /\ Dirty(entries[i]) = Dirty(entries[j])
             /\ entries[i].repo.Name = entries[j].repo.Name)
            => RepoIdx(entries[i]) < RepoIdx(entries[j])

\* ---- GetStatus under a failing command ----
Fields ==
    {"Branch", "Tag", "HasUpstream", "Ahead", "Behind", "Stash", "Age", "Files", "IsClean"}

\* the fields a command's output feeds
Fed(c) ==
    CASE c = "branch" -> {"Branch"}
      [] c = "describe" -> {"Tag"}
      [] c = "upstream" -> {"HasUpstream", "Ahead", "Behind"}
      [] c = "ahead" -> {"Ahead"}
      [] c = "behind" -> {"Behind"}
      [] c = "stash" -> {"Stash"}
      [] c = "log" -> {"Age"}
      [] OTHER -> {"Files", "IsClean"}

\* the value a field degrades to
Degraded ==
    [Branch |-> <<"H", "E", "A", "D">>, Tag |-> <<>>, HasUpstream |-> FALSE, Ahead |-> 0,
     Behind |-> 0, Stash |-> 0, Age |-> ZeroTime, Files |-> <<>>, IsClean |-> TRUE]

\* C6: a failure of one git command in one repo degrades only the fields
\* that command feeds, to their zero/placeholder values; the repo's other
\* fields and all other repos' entries are as without the failure, and
\* gatherEntries still returns one entry per repo.
C6_FailureDegradesField ==
    pc = "tui" =>
        /\ Len(entries) = N
        /\ \A i \in 1..N : \E k \in 1..N : entries[k].repo = repos[i]
        /\ \A k \in 1..Len(entries) :
              LET i == RepoIdx(entries[k])
                  ref == GetStatus(gitOk[i])
              IN \A f \in Fields :
                    IF failure # <<>> /\ failure[1] = i /\ f \in Fed(failure[2])
                    THEN entries[k].status[f] = Degraded[f]
                    ELSE entries[k].status[f] = ref[f]

\* `git status` failed in a dirty repo with a second repo beside it, and
\* the entries were returned
C6_Witness ==
    /\ pc = "tui"
    /\ N >= 2
    /\ failure = <<1, "status">>
    /\ gitOk[1] = ProfDirty
    /\ \E k \in 1..N : entries[k].repo = repos[1] /\ entries[k].status.Files = <<>>
                        /\ entries[k].status.Branch = <<"m">>

\* ---- flattenRows ----
RECURSIVE RowCount(_)
RowCount(es) ==
    IF es = <<>> THEN 0
    ELSE (IF Head(es).status.IsClean THEN 1 ELSE 1 + Len(Head(es).status.Files))
         + RowCount(Tail(es))

\* C7: len(flattenRows(entries)) is the sum over the entries of 1 for a
\* clean entry and 1 + the number of files otherwise; a clean entry gives
\* one RepoRow and no FileRow.
C7_RowCount ==
    pc = "tui" =>
        /\ Len(rows) = RowCount(entries)
        /\ \A k \in 1..Len(entries) :
              entries[k].status.IsClean =>
                 Cardinality({p \in 1..Len(rows) : rows[p].entryIdx = k - 1}) = 1

\* a dirty entry with files and a clean entry were flattened
C7_Witness ==
    /\ pc = "tui"
    /\ Len(entries) >= 2
    /\ Len(entries[1].status.Files) = 3
    /\ entries[2].status.IsClean
    /\ Len(rows) = 5

FilesOf(r) == entries[r.entryIdx + 1].status.Files

\* row r is the last row of its entry
LastOfEntry(r) ==
    \/ r.kind = "repo" /\ Len(FilesOf(r)) = 0
    \/ r.kind = "file" /\ r.fileIdx = Len(FilesOf(r)) - 1

\* C8: rows are in entry order: for each entry i one RepoRow with entryIdx
\* i, immediately followed by one FileRow per file with fileIdx 0..n-1 in
\* file order; every entryIdx indexes entries and every FileRow's fileIdx
\* indexes that entry's Files.
C8_RowOrder ==
    pc = "tui" =>
        /\ (rows = <<>>) = (entries = <<>>)
        /\ \A p \in 1..Len(rows) :
              /\ rows[p].kind \in {"repo", "file"}
              /\ rows[p].entryIdx \in 0..(Len(entries) - 1)
              /\ rows[p].kind = "file" => rows[p].fileIdx \in 0..(Len(FilesOf(rows[p])) - 1)
        /\ rows # <<>> =>
              /\ rows[1].kind = "repo" /\ rows[1].entryIdx = 0
              /\ rows[Len(rows)].entryIdx = Len(entries) - 1
              /\ LastOfEntry(rows[Len(rows)])
        /\ \A p \in 1..(Len(rows) - 1) :
              IF LastOfEntry(rows[p])
              THEN rows[p + 1].kind = "repo" /\ rows[p + 1].entryIdx = rows[p].entryIdx + 1
              ELSE /\ rows[p + 1].kind = "file"
                   /\ rows[p + 1].entryIdx = rows[p].entryIdx
                   /\ rows[p + 1].fileIdx =
                         (IF rows[p].kind = "repo" THEN 0 ELSE rows[p].fileIdx + 1)

\* two entries with files were flattened
C8_Witness ==
    /\ pc = "tui"
    /\ Len(entries) >= 2
    /\ Len(rows) = 8
    /\ rows[8].kind = "file" /\ rows[8].entryIdx = 1 /\ rows[8].fileIdx = 2

\* ---- List state: select ----
OnFileRow == cursor < Len(rows) /\ rows[cursor + 1].kind = "file"

\* the file the row under the cursor stands for
CursorFile == FilesOf(rows[cursor + 1])[rows[cursor + 1].fileIdx + 1]

\* the part of a porcelain path after the first " -> ", or all of it
NewPath(path) ==
    LET k == Index(path, Arrow)
    IN IF k < 0 THEN path ELSE Slice(path, k + 4, Len(path))

\* C9: in List state a select key on a FileRow moves to Detail, runs the
\* diff for that row's repo path, file path (the new path of a rename) and
\* status code, stores its output, resets the detail Scroll to the zero
\* Scroll, and leaves the cursor alone.
C9_SelectFileRow ==
    [][\A key \in SelectKeys :
          (ListKey(key) /\ OnFileRow) =>
             /\ viewing'
             /\ cursor' = cursor
             /\ detail' = [Offset |-> 0, Total |-> 0, Height |-> 0]
             /\ diffReq' = DiffCmd(entries[rows[cursor + 1].entryIdx + 1].repo.Path,
                                   NewPath(CursorFile.File), CursorFile.XY)
             /\ diff' \in {gitOutput(res) : res \in DiffResults}]_vars

\* Detail was entered on the renamed file: the staged diff of the new path
C9_Witness ==
    /\ viewing
    /\ OnFileRow
    /\ CursorFile.File = <<"a", " ", "-", ">", " ", "b">>
    /\ diffReq = [dir |-> entries[rows[cursor + 1].entryIdx + 1].repo.Path,
                  mode |-> "cached", file |-> <<"b">>]
    /\ diff # <<>>

\* C10: in List state a select key with the cursor on a RepoRow, or with
\* no rows, changes nothing: the state stays List and cursor, diff, detail
\* scroll, entries and rows are unchanged.
C10_SelectRepoRowNoop ==
    [][\A key \in SelectKeys :
          (ListKey(key) /\ ~OnFileRow) =>
             /\ ~viewing'
             /\ UNCHANGED <<cursor, diff, detail, entries, rows, diffReq, quit>>]_vars

\* List state with the cursor moved onto the RepoRow of the second entry
C10_Witness ==
    /\ pc = "tui"
    /\ ~viewing
    /\ ~quit
    /\ cursor > 0
    /\ cursor < Len(rows)
    /\ rows[cursor + 1].kind = "repo"
    /\ \E key \in SelectKeys : ENABLED ListKey(key)

\* ---- Detail state: back, quit ----
\* C11: from Detail a back key returns to List, and nothing done in Detail
\* (scroll keys, resizes) moves the cursor or changes the rows, so the
\* cursor is the one Detail was entered with, on the same FileRow.
C11_BackKeepsCursor ==
    [][/\ viewing => (cursor' = cursor /\ rows' = rows)
       /\ \A key \in {"q", "esc", "backspace", "left", "h"} :
             DetailKey(key) => (~viewing' /\ ~quit' /\ cursor' = cursor)]_vars

\* back in List after a Detail visit, the cursor still on the renamed file
C11_Witness ==
    /\ pc = "tui"
    /\ ~viewing
    /\ ~quit
    /\ OnFileRow
    /\ diffReq # <<>>
    /\ diffReq.file = rows[cursor + 1].filePath
    /\ diffReq.file = <<"b">>

\* C12 (as claimed): every key that quits in List state (q, esc, ctrl+c)
\* also quits when pressed in Detail state.
C12_QuitKeysAsClaimed ==
    [][\A key \in {"q", "esc", "ctrl+c"} : DetailKey(key) => quit']_vars

\* C12 (amended): q, esc and ctrl+c quit in List state; in Detail state
\* ctrl+c quits, while q and esc go back to List without quitting.
C12_QuitKeys ==
    [][/\ \A key \in {"q", "esc", "ctrl+c"} : ListKey(key) => quit'
       /\ DetailKey("ctrl+c") => quit'
       /\ \A key \in {"q", "esc"} : DetailKey(key) => (~quit' /\ ~viewing')]_vars

\* the program was quit from Detail state
C12_Witness == quit /\ viewing

\* ---- List state: navigation ----
RECURSIVE DownN(_, _, _)
DownN(c, n, k) == IF k = 0 THEN c ELSE DownN(CursorDown(c, n), n, k - 1)

RECURSIVE UpN(_, _, _)
UpN(c, n, k) == IF k = 0 THEN c ELSE UpN(CursorUp(c, n), n, k - 1)

\* C13: with R >= 1 rows, down sets the cursor to (cursor+1) mod R and up
\* to (cursor-1) mod R, and R downs (or R ups) in a row bring the cursor
\* back to where it was.
C13_CyclicCursor ==
    [][(pc = "tui" /\ Len(rows) >= 1) =>
          /\ \A key \in {"down", "j"} :
                ListKey(key) => cursor' = (cursor + 1) % Len(rows)
          /\ \A key \in {"up", "k"} :
                ListKey(key) => cursor' = (cursor - 1 + Len(rows)) % Len(rows)
          /\ DownN(cursor, Len(rows), Len(rows)) = cursor
          /\ UpN(cursor, Len(rows), Len(rows)) = cursor]_vars

\* the cursor on the last of at least five rows, in List state
C13_Witness ==
    /\ pc = "tui"
    /\ ~viewing
    /\ Len(rows) >= 5
    /\ cursor = Len(rows) - 1

\* ---- no editor hand-off ----
\* C14 (as claimed): from List state an external editor can be launched
\* for the row under the cursor, and when it exits the collector and the
\* flattener have run again: some key, handled in List state, neither
\* quits nor opens the diff but takes the program out of the event loop
\* (the hand-off) or into a new collection pass.  Update returns only nil
\* or tea.Quit and handles only tea.WindowSizeMsg and tea.KeyMsg, and
\* gatherEntries is called only when the model is built.
C14_EditorAsClaimed ==
    (pc = "tui" /\ ~viewing /\ ~quit /\ rows # <<>>) =>
        \E key \in Keys :
            ENABLED (/\ ListKey(key)
                     /\ ~quit'
                     /\ ~viewing'
                     /\ (pc' # "tui" \/ gatherVars' # gatherVars))

\* ---- the snapshot ----
\* C16: entries and rows are written when the model is built and are
\* read-only afterwards: no key, resize or render in either state changes
\* them.
C16_SnapshotReadOnly ==
    [][pc = "tui" => (entries' = entries /\ rows' = rows)]_vars

\* in Detail state after a resize, the snapshot in place
C16_Witness ==
    /\ pc = "tui"
    /\ viewing
    /\ width > 0
    /\ Len(entries) >= 2
    /\ Len(rows) = RowCount(entries)

\* ---- Detail state: scrolling ----
\* the diff as the next render lays it out
DiffTotal == Len(colorDiff(diff))

\* C15 (as claimed): in Detail state, when the diff has more lines than the
\* viewport, a down key sets the detail offset to
\* min(offset+1, max(total-height, 0)) and G sets it to max(total-height, 0),
\* with the total and the height of the rendered diff, so that the window
\* of the next render moves.
C15_DetailScrollAsClaimed ==
    (pc = "tui" /\ viewing /\ ~quit /\ DiffTotal > DetailHeight(height)) =>
        /\ \A key \in {"down", "j"} :
              ENABLED (DetailKey(key) /\
                       detail'.Offset = Min(detail.Offset + 1,
                                            Max(DiffTotal - DetailHeight(height), 0)))
        /\ ENABLED (DetailKey("G") /\
                    detail'.Offset = Max(DiffTotal - DetailHeight(height), 0))
        /\ ENABLED (DetailKey("G") /\
                    viewDetail(rows, cursor, detail', diff, height).lines
                       # viewDetail(rows, cursor, detail, diff, height).lines)

\* ------------------------------------------------------------------
\* KeepCursorVisible on its own: arguments drawn at the start, one call
\* ------------------------------------------------------------------
KcvArgs ==
    {<<c, total, h>> : c \in 0..(MaxLines - 1), total \in 1..MaxLines, h \in 0..MaxViewport}
        \cup {<<0, 100, 10>>, <<99, 100, 10>>}

InitKcv ==
    /\ \E a \in KcvArgs :
          /\ a[1] < a[2]
          /\ kcv = [called |-> FALSE, cursor |-> a[1], total |-> a[2], height |-> a[3],
                    offset |-> 0]
    /\ now = 0
    /\ screen = <<>>
    /\ trunc = TruncIdle
    /\ s = Scroll0
    /\ vis = <<>>
    /\ repos = <<>>
    /\ gitOk = <<>>
    /\ failure = <<>>
    /\ pc = "kcv"
    /\ loopI = 0
    /\ entries = <<>>
    /\ wpc = <<>>
    /\ wg = 0
    /\ writers = <<>>
    /\ InitModel

CallKeepCursorVisible ==
    /\ pc = "kcv"
    /\ ~kcv.called
    /\ kcv' = [kcv EXCEPT !.called = TRUE,
                          !.offset = KeepCursorVisible(kcv.cursor, kcv.total, kcv.height)]
    /\ UNCHANGED <<gatherVars, modelVars, scrollVars, now, screen, trunc>>

NextKcv == CallKeepCursorVisible

SpecKcv == InitKcv /\ [][NextKcv]_vars

\* the offsets that put the cursor in [offset, offset+height-2]
Candidates(c, h) == {o \in (c - h)..c : o <= c /\ c <= o + h - 2}

Least(S) == CHOOSE x \in S : \A y \in S : x <= y

ClampTo(x, lo, hi) == Max(lo, Min(x, hi))

\* C17 (as claimed): for 0 <= cursor < total and height >= 1 the result is
\* the minimal offset with cursor in [offset, offset+height-2], clamped to
\* [0, max(total-height, 0)]; KeepCursorVisible(0,100,10) = 0 and
\* KeepCursorVisible(99,100,10) = 90.
C17_MinimalOffsetAsClaimed ==
    /\ (kcv.called /\ kcv.height >= 1) =>
          /\ Candidates(kcv.cursor, kcv.height) # {}
          /\ kcv.offset = ClampTo(Least(Candidates(kcv.cursor, kcv.height)),
                                  0, Max(kcv.total - kcv.height, 0))
    /\ (kcv.called /\ kcv.total = 100 /\ kcv.height = 10) =>
          kcv.offset = (IF kcv.cursor = 0 THEN 0 ELSE 90)

\* ------------------------------------------------------------------
\* Rendering a gathered snapshot: View of the initial model in List state
\* and runGitList, each any number of times while the clock advances,
\* between two renders and between two reads of one render
\* ------------------------------------------------------------------
\* the moments at which the clock is read (seconds since the epoch); the
\* commits of the two profiles are at 5 and 7
Moments == {66, 606}

RenderNames == {<<"b">>, <<"WIDE", "c">>}

\* the size before the first tea.WindowSizeMsg is 0 x 0
RenderSizes == {<<0, 0>>, <<40, 6>>}

NotRendered == [view |-> <<>>, list |-> <<>>]

InitRender ==
    /\ \E names \in UNION {[1..n -> RenderNames] : n \in 0..MaxRepos} :
          repos = [i \in 1..Len(names) |-> [Name |-> names[i], Path |-> PathOf(i)]]
    /\ gitOk \in [1..Len(repos) -> Profiles]
    /\ failure = <<>>
    /\ pc = "render"
    /\ loopI = Len(repos)
    /\ entries \in SortFunc(Expected)
    /\ wpc = [i \in 1..Len(repos) |-> "done"]
    /\ wg = 0
    /\ writers = [i \in 1..Len(repos) |-> {i}]
    /\ rows = flattenRows(entries)
    /\ cursor \in {0, Max(Len(rows) - 1, 0)}
    /\ viewing = FALSE
    /\ detail = Scroll0
    /\ diff = <<>>
    /\ \E sz \in RenderSizes : width = sz[1] /\ height = sz[2]
    /\ quit = FALSE
    /\ diffReq = <<>>
    /\ InitScrollIdle
    /\ kcv = KcvIdle
    /\ now \in Moments
    /\ screen = NotRendered
    /\ trunc = TruncIdle

\* the clock values of n successive reads that start when the clock shows
\* from: the clock never runs backwards, and it may advance between any
\* two reads
ClockReads(n, from) ==
    {ts \in [1..n -> Moments] :
        /\ \A i \in 1..n : ts[i] >= from
        /\ \A i \in 1..(n - 1) : ts[i] <= ts[i + 1]}

\* the clock after the reads ts
ClockAfter(ts, from) == IF DOMAIN ts = {} THEN from ELSE ts[Len(ts)]

\* time passes between two renders
Tick ==
    /\ pc = "render"
    /\ \E t \in Moments : t > now /\ now' = t
    /\ UNCHANGED <<gatherVars, modelVars, scrollVars, kcv, screen, trunc>>

\* gitModel.View in List state: one read of the clock per repo row, time
\* passing in between
RenderView ==
    /\ pc = "render"
    /\ \E ts \in ClockReads(Len(entries), now) :
          /\ screen' = [screen EXCEPT !.view =
                            <<[at |-> ts,
                               out |-> viewList(entries, rows, cursor, width, height, ts)]>>]
          /\ now' = ClockAfter(ts, now)
    /\ UNCHANGED <<gatherVars, modelVars, scrollVars, kcv, trunc>>

\* runGitList on the same entries: one read of the clock per entry, time
\* passing in between
RenderList ==
    /\ pc = "render"
    /\ \E ts \in ClockReads(Len(entries), now) :
          /\ screen' = [screen EXCEPT !.list = <<[at |-> ts, out |-> runGitList(entries, ts)]>>]
          /\ now' = ClockAfter(ts, now)
    /\ UNCHANGED <<gatherVars, modelVars, scrollVars, kcv, trunc>>

NextRender ==
    \/ Tick
    \/ RenderView
    \/ RenderList

SpecRender == InitRender /\ [][NextRender]_vars

\* C18 (as claimed): rendering the same rows (same entries, cursor, width
\* and height) twice, at any two moments, yields identical strings: each
\* render writes what the previous render of the same kind wrote.
C18_RenderPureAsClaimed ==
    [][/\ (screen.view # <<>> /\ screen'.view # <<>>) =>
              screen'.view[1].out = screen.view[1].out
       /\ (screen.list # <<>> /\ screen'.list # <<>>) =>
              screen'.list[1].out = screen.list[1].out]_vars

\* ---- what is on the screen ----
DotCount(line) == Cardinality({k \in 1..Len(Text(line)) : Text(line)[k] = "DOT"})

\* the text that follows the dot leader and its space
RightOf(line) ==
    LET tx == Text(line)
        p == MaxOf({0} \cup {k \in 1..Len(tx) : tx[k] = "DOT"})
    IN SubSeq(tx, p + 2, Len(tx))

IsHeader(line) == line # <<>> /\ line[1] = Styled("faint", <<"BOX", "BOX", " ">>)

Headers(lines) == SelectSeq(lines, IsHeader)

\* the widest text of column j over all entries, entry i rendered at the
\* moment clocks[i]
ColMax(j, clocks) ==
    MaxOf({0} \cup {StringWidth(rightCols(entries[i].status, clocks[i])[j]) :
                        i \in 1..Len(entries)})

\* the primary width of list mode for the given clock reads
PrimaryAt(clocks) == primaryW(entries, [j \in 1..6 |-> ColMax(j, clocks)])

SegsWidth(segs) == StringWidth(Text(segs))

\* C19: the dot leader of every rendered repo row is
\* max(availableWidth - leftWidth - rightWidth, 3) cells long, with width - 4
\* available in the interactive row renderer, so never shorter than 3, for
\* every terminal width from 0 on; in list mode the repeat count
\* primaryW - leftWidth - branchWidth - ageColumnWidth - 2 is at least 3.
C19_DotLeader ==
    /\ (screen.view # <<>> /\ entries # <<>>) =>
          LET v == screen.view[1].out
          IN \A k \in 1..Len(v.lines) :
                rows[v.first + k].kind = "repo" =>
                   LET e == entries[rows[v.first + k].entryIdx + 1]
                       n == DotCount(v.lines[k])
                   IN /\ n = Max((width - 4) - StringWidth(leftOf(e))
                                    - StringWidth(RightOf(v.lines[k])), 3)
                      /\ n >= 3
    /\ (screen.list # <<>> /\ entries # <<>>) =>
          LET l == screen.list[1]
              hs == Headers(l.out.lines)
          IN /\ ~l.out.panic
             /\ Len(hs) = Len(entries)
             /\ \A k \in 1..Len(hs) :
                   LET n == DotCount(hs[k])
                   IN /\ n = PrimaryAt(l.at) - StringWidth(leftOf(entries[k]))
                                 - StringWidth(entries[k].status.Branch)
                                 - ColMax(2, l.at) - 2
                      /\ n >= 3

\* both renderers have run; the terminal is 0 wide, a repo row is on the
\* screen with the floor of 3 dots, and list mode printed two headers
C19_Witness ==
    /\ screen.view # <<>>
    /\ screen.list # <<>>
    /\ width = 0
    /\ Len(entries) = 2
    /\ \E k \in 1..Len(screen.view[1].out.lines) :
          /\ rows[screen.view[1].out.first + k].kind = "repo"
          /\ DotCount(screen.view[1].out.lines[k]) = 3
    /\ \E k \in 1..2 : DotCount(Headers(screen.list[1].out.lines)[k]) > 3

\* the columns after the age column that list mode prints, in order
Present(clocks) == SelectSeq(<<3, 4, 5, 6>>, LAMBDA j : ColMax(j, clocks) > 0)

\* C20: in list mode each of the age, ahead, behind, stash and tag columns
\* is padded to the maximum display width of that column over all entries
\* (no padding count is negative), and every header line is primaryW wide
\* through the end of the age column, so the branch names end at the same
\* cell in every row.
C20_ListColumns ==
    (screen.list # <<>> /\ entries # <<>>) =>
       LET l == screen.list[1]
           hs == Headers(l.out.lines)
           pr == Present(l.at)
       IN /\ ~l.out.panic
          /\ Len(hs) = Len(entries)
          /\ \A k \in 1..Len(hs) :
                LET c == rightCols(entries[k].status, l.at[k])
                IN /\ Len(hs[k]) = 9 + 3 * Len(pr)
                   /\ hs[k][6].text = c[1]
                   /\ SegsWidth(SubSeq(hs[k], 1, 6)) = PrimaryAt(l.at) - ColMax(2, l.at) - 1
                   /\ hs[k][8].text = c[2]
                   /\ SegsWidth(SubSeq(hs[k], 8, 9)) = ColMax(2, l.at)
                   /\ SegsWidth(SubSeq(hs[k], 1, 9)) = PrimaryAt(l.at)
                   /\ \A m \in 1..Len(pr) :
                         /\ hs[k][8 + 3 * m].text = c[pr[m]]
                         /\ SegsWidth(SubSeq(hs[k], 8 + 3 * m, 9 + 3 * m)) = ColMax(pr[m], l.at)

\* list mode printed two entries whose ages and markers differ in width, so
\* that a column of one of them carries padding
C20_Witness ==
    /\ screen.list # <<>>
    /\ Len(entries) = 2
    /\ LET hs == Headers(screen.list[1].out.lines)
       IN /\ Len(hs) = 2
          /\ hs[1][8].text # hs[2][8].text
          /\ \E k \in 1..2 : hs[k][9].text # <<>>
          /\ \E k \in 1..2 : Len(hs[k]) > 9 /\ hs[k][12].text # <<>>

\* ---- the interactive list view: columns ----
\* the repo rows on the screen, by 1-based position in the lines written
RepoLinesOnScreen ==
    {k \in 1..Len(screen.view[1].out.lines) :
        rows[screen.view[1].out.first + k].kind = "repo"}

\* C21 (as claimed): in the interactive list view every repo row has each
\* right-hand column padded to that column's maximum display width across
\* all rows, so a column occupies the same width in every row: the
\* right-hand sides of any two repo rows on the screen are equally wide, and
\* each is at least as wide as the widest branch and the widest age.
C21_ColumnsPaddedAsClaimed ==
    (screen.view # <<>> /\ entries # <<>>) =>
       \A k \in RepoLinesOnScreen :
          /\ StringWidth(RightOf(screen.view[1].out.lines[k]))
                >= ColMax(1, screen.view[1].at) + ColMax(2, screen.view[1].at)
          /\ \A m \in RepoLinesOnScreen :
                StringWidth(RightOf(screen.view[1].out.lines[k]))
                   = StringWidth(RightOf(screen.view[1].out.lines[m]))

\* ---- the list view: the window around the cursor ----
\* C22 (as claimed): KeepCursorVisible returns an offset with
\* offset <= cursor < offset + viewportH for every viewportH >= 1, so the
\* lines the List view writes always include the row under the cursor,
\* whenever the clock is read during the render.
C22_CursorRowShownAsClaimed ==
    (pc = "tui" /\ ~viewing /\ rows # <<>>) =>
       \A ts \in ClockReads(Len(entries), now) :
          LET v == viewList(entries, rows, cursor, width, height, ts)
          IN /\ v.first <= cursor
             /\ cursor < v.first + Len(v.lines)
             /\ (height - 2 >= 1 /\ Len(rows) > height - 2) =>
                   LET o == KeepCursorVisible(cursor, Len(rows), height - 2)
                   IN o = v.first /\ o <= cursor /\ cursor < o + (height - 2)

\* ---- Scroll.Visible ----
\* the terminal heights a Detail render can see
TermHeights == 0..(MaxHeight + 5)

\* C23: for every prior Offset, every len(lines) >= 0 and every
\* Height >= 0, Visible(lines) sets Total to len(lines), re-clamps Offset
\* into [0, max(Total-Height, 0)], leaves Height alone and returns exactly
\* lines[Offset .. min(Offset+Height, len(lines))) without indexing outside
\* lines; the Height viewDetail passes is at least 1 for every terminal
\* height.
C23_VisibleWindow ==
    [][/\ \A h \in TermHeights : DetailHeight(h) >= 1
       /\ \A n \in 0..MaxTotal :
             (ScrollVisible(n) /\ s.Height >= 0) =>
                /\ s'.Total = n
                /\ s'.Height = s.Height
                /\ s'.Offset = ClampTo(s.Offset, 0, Max(n - s.Height, 0))
                /\ vis'[3] = FALSE
                /\ Len(vis'[4]) = Min(s'.Offset + s.Height, n) - s'.Offset
                /\ \A k \in 1..Len(vis'[4]) : vis'[4][k] = Lines(n)[s'.Offset + k]]_vars

\* Visible has cut a full window out of a longer list after pulling the
\* offset back to the last page
C23_Witness ==
    /\ Len(vis) = 4
    /\ vis[1] = "Visible"
    /\ s.Height >= 1
    /\ s.Total > s.Height
    /\ s.Offset = s.Total - s.Height
    /\ Len(vis[4]) = s.Height
    /\ vis[4][1] = s.Offset + 1

\* ------------------------------------------------------------------
\* Truncate on its own: arguments drawn at the start, one call
\* ------------------------------------------------------------------
TruncRunes == {"a", "b", "WIDE"}

TruncStrings == UNION {[1..n -> TruncRunes] : n \in 0..MaxStr}

InitTrunc ==
    /\ \E str \in TruncStrings, mx \in -1..MaxCells :
          trunc = [called |-> FALSE, str |-> str, max |-> mx, out |-> <<>>]
    /\ kcv = KcvIdle
    /\ now = 0
    /\ screen = <<>>
    /\ s = Scroll0
    /\ vis = <<>>
    /\ repos = <<>>
    /\ gitOk = <<>>
    /\ failure = <<>>
    /\ pc = "truncate"
    /\ loopI = 0
    /\ entries = <<>>
    /\ wpc = <<>>
    /\ wg = 0
    /\ writers = <<>>
    /\ InitModel

CallTruncate ==
    /\ pc = "truncate"
    /\ ~trunc.called
    /\ trunc' = [trunc EXCEPT !.called = TRUE, !.out = Truncate(trunc.str, trunc.max)]
    /\ UNCHANGED <<gatherVars, modelVars, scrollVars, kcv, now, screen>>

NextTrunc == CallTruncate

SpecTrunc == InitTrunc /\ [][NextTrunc]_vars

\* the trailing segments of a string, the empty one and the whole included
Suffixes(str) == {SubSeq(str, k, Len(str)) : k \in 1..(Len(str) + 1)}

\* the leading segments of a string
Prefixes(str) == {SubSeq(str, 1, k) : k \in 0..Len(str)}

\* C24 (as claimed): Truncate(s, max) returns s when its display width is
\* at most max; otherwise, for max >= 1, it returns a string at most max
\* cells wide made of one ellipsis and a retained part of s, the retained
\* part being a trailing segment of s.
C24_TruncateKeepsSuffixAsClaimed ==
    trunc.called =>
       /\ StringWidth(trunc.str) <= trunc.max => trunc.out = trunc.str
       /\ (StringWidth(trunc.str) > trunc.max /\ trunc.max >= 1) =>
             /\ StringWidth(trunc.out) <= trunc.max
             /\ \E r \in Suffixes(trunc.str) :
                   trunc.out = <<"ELL">> \o r \/ trunc.out = r \o <<"ELL">>

\* ---- the cursor ----
\* C25: after any sequence of key and resize events from the initial
\* model the cursor is a valid row index: 0 <= cursor < len(rows) when rows
\* is non-empty, and 0 when rows is empty.
C25_CursorInRange ==
    pc = "tui" =>
       IF rows = <<>> THEN cursor = 0
       ELSE 0 <= cursor /\ cursor < Len(rows)

\* the cursor has been moved to the last of several rows
C25_Witness ==
    /\ pc = "tui"
    /\ ~viewing
    /\ Len(rows) > 1
    /\ cursor = Len(rows) - 1

\* ---- Detail state: the row under the cursor ----
\* C26: the model starts in List state, and whenever it is in Detail
\* state rows is non-empty and rows[cursor] is a file row, so the access
\* rows[cursor] of the Detail renderer is in range.
C26_DetailOnFileRow ==
    [][/\ (pc # "tui" /\ pc' = "tui") => ~viewing'
       /\ viewing' =>
             /\ rows' # <<>>
             /\ 0 <= cursor' /\ cursor' < Len(rows')
             /\ rows'[cursor' + 1].kind = "file"
             /\ ~viewDetail(rows', cursor', detail', diff', height').panic]_vars

\* Detail state on a file row that is not the first row, rendered with the
\* repo and the file of that row in the title
C26_Witness ==
    /\ viewing
    /\ cursor > 0
    /\ rows[cursor + 1].kind = "file"
    /\ viewDetail(rows, cursor, detail, diff, height).title
          = <<rows[cursor + 1].repoName, rows[cursor + 1].filePath>>

====
